---- MODULE Spec2Model ----
(***************************************************************************)
(* sc::vector<T> and its iterator (source/include/vector.h) as a state     *)
(* machine.  One vector `v` lives for the whole run; a second vector `tmp` *)
(* lives in an inner scope and is the other operand of swap, of the copy   *)
(* constructor and of operator=.  Every buffer is a sequence of T, slot i  *)
(* of the source being element i+1 of the sequence, and carries the        *)
(* identity `buf` the allocator gave it.                                   *)
(*                                                                         *)
(* An access to a slot outside the owned buffer is undefined behaviour.    *)
(* A read there yields any element value (the `junk` of the call, chosen   *)
(* nondeterministically) and is recorded in oobR.  A write there damages   *)
(* memory the vector does not own: it is recorded in oobW, the fields keep *)
(* the values the code gives them, and the run ends in that state, since   *)
(* nothing defines what the program does afterwards.  The calls whose code  *)
(* reads no slot outside the buffer on any reachable vector are made with   *)
(* junk = T().                                                              *)
(*                                                                         *)
(* The const_iterator overloads of insert and erase repeat the code of the *)
(* iterator overloads line for line and are not modelled a second time.    *)
(***************************************************************************)
EXTENDS Integers, Sequences, FiniteSets, TLC

VARIABLES v, tmp, scope, heap, last

vars == <<v, tmp, scope, heap, last>>

\* ----------------------------------------------------------------- bounds
MaxSize == 2        \* the growing operations are called while m_end + count <= MaxSize
MaxItems == 2       \* longest initializer list / range handed to an operation
MaxCount == 2       \* largest argument of vector(cp), reserve(n) and assign(count, x)
NumBufs == 3        \* buffers the allocator can have out at once

\* ------------------------------------------------------- program constants
FirstCapacity == 10 \* reserve(10) of push_front / push_back on capacity 0
DefaultT == 0       \* T(): what a slot of `new T[n]` holds
Outside == 0 - 1    \* no slot of the owned buffer

\* the element type: two values, one of them T()
T == {DefaultT, 1}
Val == T            \* the values a caller passes
BufIds == 1..NumBufs
NoBuf == 0

RECURSIVE SeqsUpTo(_)
SeqsUpTo(n) ==
  IF n = 0 THEN {<<>>}
  ELSE LET shorter == SeqsUpTo(n - 1)
       IN  shorter \cup {Append(s, x) : s \in {t \in shorter : Len(t) = n - 1}, x \in Val}

Items == SeqsUpTo(MaxItems)

\* ------------------------------------------------------------- allocator
\* new T[n]: n default-initialised slots
NewArray(n) == [i \in 1..n |-> DefaultT]

\* the buffer identity operator new[] hands out: one that is not in use
Alloc(hp) == CHOOSE b \in BufIds : b \notin hp /\ \A c \in BufIds \ hp : b <= c

\* ------------------------------------------------------------- iterators
\* MyForwardIterator: m_ptr as (buffer, offset from the buffer's first slot)
Iter(b, o) == [buf |-> b, off |-> o]
NoIter == Iter(NoBuf, 0)

ItPlus(it, n) == [it EXCEPT !.off = @ + n]       \* operator+ / operator+=
ItMinus(it, n) == [it EXCEPT !.off = @ - n]      \* operator- / operator-=
ItDiff(a, b) == a.off - b.off                    \* operator-(iterator)
ItLt(a, b) == a.off < b.off                      \* operator<
ItGt(a, b) == a.off > b.off                      \* operator>
ItLe(a, b) == a.off <= b.off                     \* operator<=
ItGe(a, b) == a.off >= b.off                     \* operator>=

\* --------------------------------------------------------- call contexts
\* The state one call works on: the vector's members, the heap, and what the
\* call has done so far.
Ctx(vec, hp, u) ==
  [vec |-> vec, heap |-> hp, junk |-> u, oobR |-> FALSE, oobW |-> FALSE,
   dfree |-> FALSE, thrown |-> FALSE, ret |-> NoIter]

InBuf(c, i) == i >= 0 /\ i < Len(c.vec.m_storage)

\* m_storage[i] as an rvalue
Rd(c, i) == IF InBuf(c, i) THEN c.vec.m_storage[i + 1] ELSE c.junk

\* m_storage[i] = x
Wr(c, i, x) ==
  IF InBuf(c, i) THEN [c EXCEPT !.vec.m_storage[i + 1] = x]
  ELSE [c EXCEPT !.oobW = TRUE]

\* m_storage[dst] = m_storage[src]
Cp(c, dst, src) == Wr([c EXCEPT !.oobR = @ \/ ~InBuf(c, src)], dst, Rd(c, src))

\* the slot an iterator addresses: its offset when it points into the owned
\* buffer, no slot of it otherwise
Slot(c, it) == IF it.buf = c.vec.buf THEN it.off ELSE Outside

begin(c) == Iter(c.vec.buf, 0)
end(c) == Iter(c.vec.buf, c.vec.m_end)
full(vec) == vec.m_capacity = vec.m_end

\* throw std::out_of_range
Throw(c) == [c EXCEPT !.thrown = TRUE]

\* operator new[] followed by taking the buffer as m_storage
Acquire(c, n) ==
  LET nb == Alloc(c.heap)
  IN  [c EXCEPT !.heap = @ \cup {nb}, !.vec.m_storage = NewArray(n), !.vec.buf = nb]

\* delete[] of buffer b
Release(c, b) == [c EXCEPT !.heap = @ \ {b}, !.dfree = @ \/ b \notin c.heap]

\* for (i = from; i < n; i++) dst[i] = src[i], dst being the owned buffer and
\* src any other array
RECURSIVE CopyIn(_, _, _, _)
CopyIn(c, src, i, n) ==
  IF i < n
    THEN LET x == IF i < Len(src) THEN src[i + 1] ELSE c.junk
             c1 == [c EXCEPT !.oobR = @ \/ i >= Len(src)]
         IN  CopyIn(Wr(c1, i, x), src, i + 1, n)
    ELSE c

\* ---------------------------------------------------------- constructors
\* explicit vector(size_type cp = 0)
vector_sized(hp, cp) ==
  LET c == Acquire(Ctx([m_end |-> 0, m_capacity |-> 0, m_storage |-> <<>>, buf |-> NoBuf], hp, DefaultT), cp)
  IN  [c EXCEPT !.vec.m_capacity = cp, !.vec.m_end = cp]

\* vector(const std::initializer_list<T>&) and vector(InputItr, InputItr)
vector_ilist(hp, il) ==
  LET c == Acquire(Ctx([m_end |-> 0, m_capacity |-> Len(il), m_storage |-> <<>>, buf |-> NoBuf], hp, DefaultT), Len(il))
  IN  CopyIn([c EXCEPT !.vec.m_end = Len(il)], il, 0, Len(il))

\* vector(const vector&)
vector_copy(hp, src) ==
  LET c == Acquire(Ctx([m_end |-> 0, m_capacity |-> 0, m_storage |-> <<>>, buf |-> NoBuf], hp, DefaultT), src.m_capacity)
  IN  CopyIn([c EXCEPT !.vec.m_capacity = src.m_capacity, !.vec.m_end = src.m_end],
             src.m_storage, 0, src.m_end)

\* ~vector()
destroy(c) == IF c.vec.buf # NoBuf THEN Release(c, c.vec.buf) ELSE c

\* ------------------------------------------------------------- capacity
\* reserve with == for <= in its early return
reserve_mut(c, alocar) ==
  IF alocar = c.vec.m_capacity THEN c
  ELSE LET old == c.vec
           c1 == CopyIn(Acquire(c, alocar), old.m_storage, 0, old.m_end)
           c2 == Release(c1, old.buf)
       IN  [c2 EXCEPT !.vec.m_capacity = alocar]

reserve(c, alocar) ==
  IF alocar <= c.vec.m_capacity THEN c
  ELSE LET old == c.vec
           c1 == CopyIn(Acquire(c, alocar), old.m_storage, 0, old.m_end)
           c2 == Release(c1, old.buf)
       IN  [c2 EXCEPT !.vec.m_capacity = alocar]

\* shrink_to_fit without its delete[]
shrink_to_fit_mut(c) ==
  IF c.vec.m_capacity > c.vec.m_end
    THEN LET old == c.vec
             c1 == CopyIn(Acquire(c, old.m_end), old.m_storage, 0, old.m_end)
         IN  [c1 EXCEPT !.vec.m_capacity = old.m_end]
    ELSE c

shrink_to_fit(c) ==
  IF c.vec.m_capacity > c.vec.m_end
    THEN LET old == c.vec
             c1 == CopyIn(Acquire(c, old.m_end), old.m_storage, 0, old.m_end)
             c2 == Release(c1, old.buf)
         IN  [c2 EXCEPT !.vec.m_capacity = old.m_end]
    ELSE c

\* ------------------------------------------------------------ modifiers
clear(c) == [c EXCEPT !.vec.m_end = 0]

RECURSIVE push_front_loop(_, _)
push_front_loop(c, i) ==
  IF i > 0 THEN push_front_loop(Cp(c, i, i - 1), i - 1) ELSE c

push_front(c, st) ==
  LET c1 == IF c.vec.m_capacity = 0 THEN reserve(c, FirstCapacity)
            ELSE IF full(c.vec) THEN reserve(c, 2 * c.vec.m_capacity)
            ELSE c
      c2 == push_front_loop(c1, c1.vec.m_end)
      c3 == Wr(c2, 0, st)
  IN  [c3 EXCEPT !.vec.m_end = @ + 1]

\* push_back without the capacity-0 case
push_back_mut(c, st) ==
  LET c1 == IF c.vec.m_end = c.vec.m_capacity THEN reserve(c, 2 * c.vec.m_capacity)
            ELSE c
      c2 == Wr(c1, c1.vec.m_end, st)
  IN  [c2 EXCEPT !.vec.m_end = @ + 1]

push_back(c, st) ==
  LET c1 == IF c.vec.m_capacity = 0 THEN reserve(c, FirstCapacity)
            ELSE IF c.vec.m_end = c.vec.m_capacity THEN reserve(c, 2 * c.vec.m_capacity)
            ELSE c
      c2 == Wr(c1, c1.vec.m_end, st)
  IN  [c2 EXCEPT !.vec.m_end = @ + 1]

pop_back(c) == IF c.vec.m_end > 0 THEN [c EXCEPT !.vec.m_end = @ - 1] ELSE c

RECURSIVE pop_front_loop(_, _)
pop_front_loop(c, i) ==
  IF i < c.vec.m_end THEN pop_front_loop(Cp(c, i, i + 1), i + 1) ELSE c

pop_front(c) ==
  IF c.vec.m_end > 0
    THEN [pop_front_loop(c, 0) EXCEPT !.vec.m_end = @ - 1]
    ELSE c

\* how a call ends: normally, with std::out_of_range, or having written outside
\* its buffer or released a buffer twice
Outcome(c) ==
  IF c.oobW \/ c.dfree THEN "corrupt"
  ELSE IF c.thrown THEN "out_of_range"
  ELSE "ok"

\* *it = *src for two iterators, and *it = x
CpIt(c, it, src) == Cp(c, Slot(c, it), Slot(c, src))
WrIt(c, it, x) == Wr(c, Slot(c, it), x)

\* for (iterator it = end()-1; it > pos_; it--) *it = *(it-1);
RECURSIVE insert_loop(_, _, _)
insert_loop(c, it, pos_) ==
  IF ItGt(it, pos_) THEN insert_loop(CpIt(c, it, ItMinus(it, 1)), ItMinus(it, 1), pos_) ELSE c

\* iterator insert(iterator pos_, const_reference value_)
insert(c, pos_, value_) ==
  IF ItLt(pos_, begin(c)) \/ ItGt(pos_, end(c)) THEN Throw(c)
  ELSE LET dif == ItDiff(pos_, begin(c))
           c1 == IF full(c.vec) THEN reserve(c, c.vec.m_capacity * 2) ELSE c
           c2 == [c1 EXCEPT !.vec.m_end = @ + 1]
           pos == ItPlus(begin(c2), dif)
           c3 == insert_loop(c2, ItMinus(end(c2), 1), pos)
           c4 == WrIt(c3, pos, value_)
       IN  [c4 EXCEPT !.ret = pos]

\* for (auto it{end()-1}; it > pos_; it--, i--) m_storage[i] = *(it-dif);
RECURSIVE insert_range_loop(_, _, _, _, _)
insert_range_loop(c, it, i, pos_, dif) ==
  IF ItGt(it, pos_)
    THEN insert_range_loop(Cp(c, i, Slot(c, ItMinus(it, dif))), ItMinus(it, 1), i - 1, pos_, dif)
    ELSE c

\* for (auto i{0u}; i < dif; i++) *(pos_+i) = *(first_+i);
RECURSIVE insert_fill(_, _, _, _)
insert_fill(c, pos_, src, i) ==
  IF i < Len(src) THEN insert_fill(WrIt(c, ItPlus(pos_, i), src[i + 1]), pos_, src, i + 1) ELSE c

\* iterator insert(iterator pos_, InputItr first_, InputItr last_), [first_, last_) = src
insert_range(c, pos_, src) ==
  IF ItLt(pos_, begin(c)) \/ ItGt(pos_, end(c)) THEN Throw(c)
  ELSE LET dif == Len(src)
           distancia == ItDiff(pos_, begin(c))
           c1 == IF full(c.vec) \/ (c.vec.m_end + dif) > c.vec.m_capacity
                   THEN reserve(c, c.vec.m_capacity + dif) ELSE c
           c2 == [c1 EXCEPT !.vec.m_end = @ + dif]
           pos == ItPlus(begin(c2), distancia)
           c3 == insert_range_loop(c2, ItMinus(end(c2), 1), c2.vec.m_end - 1, pos, dif)
           c4 == insert_fill(c3, pos, src, 0)
       IN  [c4 EXCEPT !.ret = pos]

\* for (iterator it = end()-1; it >= pos_; it--) *it = *(it-n_elem);
RECURSIVE insert_ilist_loop(_, _, _, _)
insert_ilist_loop(c, it, pos_, n_elem) ==
  IF ItGe(it, pos_)
    THEN insert_ilist_loop(CpIt(c, it, ItMinus(it, n_elem)), ItMinus(it, 1), pos_, n_elem)
    ELSE c

\* for (iterator iter = pos_; iter < (pos_+n_elem); iter++, i++) *iter = *(ilist_.begin()+i);
RECURSIVE insert_ilist_fill(_, _, _, _, _)
insert_ilist_fill(c, iter, pos_, ilist_, i) ==
  IF ItLt(iter, ItPlus(pos_, Len(ilist_)))
    THEN insert_ilist_fill(WrIt(c, iter, ilist_[i + 1]), ItPlus(iter, 1), pos_, ilist_, i + 1)
    ELSE c

\* iterator insert(iterator pos_, const std::initializer_list<value_type>& ilist_)
insert_ilist(c, pos_, ilist_) ==
  LET distancia == ItDiff(pos_, begin(c))
      n_elem == Len(ilist_)
  IN  IF ItLt(pos_, begin(c)) \/ ItGt(pos_, end(c)) THEN Throw(c)
      ELSE LET c1 == IF full(c.vec) THEN reserve(c, c.vec.m_capacity + n_elem) ELSE c
               c2 == [c1 EXCEPT !.vec.m_end = @ + n_elem]
               pos == ItPlus(begin(c2), distancia)
               c3 == insert_ilist_loop(c2, ItMinus(end(c2), 1), pos, n_elem)
               c4 == insert_ilist_fill(c3, pos, pos, ilist_, 0)
           IN  [c4 EXCEPT !.ret = pos]

\* the erase loop stopping one slot early
RECURSIVE erase_loop_mut(_, _, _)
erase_loop_mut(c, it, dif) ==
  IF ItLt(it, ItMinus(end(c), dif + 1))
    THEN erase_loop_mut(CpIt(c, it, ItPlus(it, dif)), ItPlus(it, 1), dif)
    ELSE c

\* for (iterator it = first; it < end()-dif; it++) *it = *(it+dif);
RECURSIVE erase_loop(_, _, _)
erase_loop(c, it, dif) ==
  IF ItLt(it, ItMinus(end(c), dif))
    THEN erase_loop(CpIt(c, it, ItPlus(it, dif)), ItPlus(it, 1), dif)
    ELSE c

\* iterator erase(iterator first, iterator last)
erase_range(c, first, lst) ==
  LET dif == ItDiff(lst, first)
  IN  IF ItGt(first, lst) \/ (ItLt(first, begin(c)) \/ ItGt(lst, end(c))) THEN Throw(c)
      ELSE LET c1 == erase_loop(c, first, dif)
           IN  [c1 EXCEPT !.vec.m_end = @ - dif, !.ret = first]

\* erase(pos) accepting pos == end()
erase_mut(c, pos) ==
  IF ItGe(pos, begin(c)) /\ ItLe(pos, end(c))
    THEN LET c1 == erase_loop(c, pos, 1)
         IN  [c1 EXCEPT !.vec.m_end = @ - 1, !.ret = pos]
    ELSE Throw(c)

\* iterator erase(iterator pos)
erase(c, pos) ==
  IF ItGe(pos, begin(c)) /\ ItLt(pos, end(c))
    THEN LET c1 == erase_loop(c, pos, 1)
         IN  [c1 EXCEPT !.vec.m_end = @ - 1, !.ret = pos]
    ELSE Throw(c)

\* for (auto i{0u}; i < count_; i++) m_storage[i] = value_;
RECURSIVE assign_fill(_, _, _, _)
assign_fill(c, i, count_, value_) ==
  IF i < count_ THEN assign_fill(Wr(c, i, value_), i + 1, count_, value_) ELSE c

\* assign(count, value) reusing the buffer whenever count fits the capacity
assign_mut(c, count_, value_) ==
  IF count_ <= c.vec.m_capacity
    THEN assign_fill([c EXCEPT !.vec.m_end = count_], 0, count_, value_)
    ELSE LET old == c.vec
             c1 == Acquire(c, count_)
             c2 == [c1 EXCEPT !.vec.m_capacity = count_, !.vec.m_end = count_]
             c3 == Release(c2, old.buf)
         IN  assign_fill(c3, 0, count_, value_)

\* void assign(size_type count_, const_reference value_)
assign(c, count_, value_) ==
  IF count_ <= c.vec.m_end
    THEN assign_fill([c EXCEPT !.vec.m_end = count_], 0, count_, value_)
    ELSE LET old == c.vec
             c1 == Acquire(c, count_)
             c2 == [c1 EXCEPT !.vec.m_capacity = count_, !.vec.m_end = count_]
             c3 == Release(c2, old.buf)
         IN  assign_fill(c3, 0, count_, value_)

\* void assign(const std::initializer_list<T>& ilist)
assign_ilist(c, ilist) ==
  IF Len(ilist) <= c.vec.m_end
    THEN CopyIn([c EXCEPT !.vec.m_end = Len(ilist)], ilist, 0, Len(ilist))
    ELSE LET old == c.vec
             c1 == Acquire(c, Len(ilist))
             c2 == [c1 EXCEPT !.vec.m_capacity = Len(ilist), !.vec.m_end = Len(ilist)]
             c3 == Release(c2, old.buf)
         IN  CopyIn(c3, ilist, 0, Len(ilist))

\* void assign(InputItr first, InputItr last), [first, last) = src
assign_range(c, src) ==
  LET dif == Len(src)
  IN  IF dif <= c.vec.m_end
        THEN CopyIn([c EXCEPT !.vec.m_end = dif], src, 0, dif)
        ELSE LET old == c.vec
                 c1 == Acquire(c, dif)
                 c2 == [c1 EXCEPT !.vec.m_capacity = dif, !.vec.m_end = dif]
                 c3 == Release(c2, old.buf)
             IN  CopyIn(c3, src, 0, dif)

\* vector& operator=(const vector& vec); self is this == &vec
copy_assign(c, vec, self) ==
  IF self THEN c
  ELSE IF vec.m_end <= c.vec.m_capacity
    THEN [CopyIn(c, vec.m_storage, 0, vec.m_end) EXCEPT !.vec.m_end = vec.m_end]
    ELSE LET old == c.vec
             c1 == CopyIn(Acquire(c, vec.m_end), vec.m_storage, 0, vec.m_end)
             c2 == Release(c1, old.buf)
         IN  [c2 EXCEPT !.vec.m_end = vec.m_end, !.vec.m_capacity = vec.m_end]

\* friend void swap(vector<T>& first_, vector<T>& second_): the pair after the call
swap(first_, second_) ==
  [first  |-> [first_ EXCEPT !.m_end = second_.m_end, !.m_capacity = second_.m_capacity,
                             !.m_storage = second_.m_storage, !.buf = second_.buf],
   second |-> [second_ EXCEPT !.m_end = first_.m_end, !.m_capacity = first_.m_capacity,
                              !.m_storage = first_.m_storage, !.buf = first_.buf]]

\* v.erase(v.insert(pos_, value_)): the caller hands insert's iterator to erase
insert_then_erase(c, pos_, value_) ==
  LET c1 == insert(c, pos_, value_)
  IN  IF Outcome(c1) = "ok" THEN erase(c1, c1.ret) ELSE c1

\* ---------------------------------------------------------------- state

\* What the state keeps of the last call: its name, the number n of elements it
\* was given or asked to remove (0 when it threw), the iterator it returned and
\* how it ended.
Call(op, c, n) ==
  [op |-> op, n |-> IF c.thrown THEN 0 ELSE n, ret |-> c.ret,
   outcome |-> Outcome(c), oobR |-> c.oobR, oobW |-> c.oobW, dfree |-> c.dfree]

NoVec == [m_end |-> 0, m_capacity |-> 0, m_storage |-> <<>>, buf |-> NoBuf]

Running == last.outcome # "corrupt"

Init ==
  /\ \E c \in {vector_sized({}, cp) : cp \in 0..MaxCount} \cup {vector_ilist({}, il) : il \in Items} :
       /\ v = c.vec
       /\ heap = c.heap
       /\ last = Call("vector", c, c.vec.m_end)
  /\ tmp = NoVec
  /\ scope = "v"

\* a call on v that leaves tmp and the scope alone
OnV(op, c, n) ==
  /\ v' = c.vec
  /\ heap' = c.heap
  /\ last' = Call(op, c, n)
  /\ UNCHANGED <<tmp, scope>>

PushBack ==
  /\ Running /\ scope = "v" /\ v.m_end < MaxSize
  /\ \E x \in Val : OnV("push_back", push_back(Ctx(v, heap, DefaultT), x), 1)

PushFront ==
  /\ Running /\ scope = "v" /\ v.m_end < MaxSize
  /\ \E x \in Val : OnV("push_front", push_front(Ctx(v, heap, DefaultT), x), 1)

PopBack ==
  /\ Running /\ scope = "v"
  /\ OnV("pop_back", pop_back(Ctx(v, heap, DefaultT)), 0)

PopFront ==
  /\ Running /\ scope = "v"
  /\ \E u \in T : OnV("pop_front", pop_front(Ctx(v, heap, u)), 0)

Reserve ==
  /\ Running /\ scope = "v"
  /\ \E n \in 0..MaxCount : OnV("reserve", reserve(Ctx(v, heap, DefaultT), n), 0)

ShrinkToFit ==
  /\ Running /\ scope = "v"
  /\ OnV("shrink_to_fit", shrink_to_fit(Ctx(v, heap, DefaultT)), 0)

Clear ==
  /\ Running /\ scope = "v"
  /\ OnV("clear", clear(Ctx(v, heap, DefaultT)), 0)

\* the offsets a caller passes as positions: every slot of the longest vector,
\* one before begin() and one past end()
MaxLen == IF MaxSize > MaxCount THEN MaxSize ELSE MaxCount
Positions == (0 - 1)..(MaxLen + 1)

InsertValue ==
  /\ Running /\ scope = "v" /\ v.m_end < MaxSize
  /\ \E p \in Positions, x \in Val :
       /\ p <= v.m_end + 1
       /\ OnV("insert", insert(Ctx(v, heap, DefaultT), Iter(v.buf, p), x), 1)

InsertRange ==
  /\ Running /\ scope = "v"
  /\ \E p \in Positions, src \in Items, u \in T :
       /\ p <= v.m_end + 1
       /\ v.m_end + Len(src) <= MaxSize
       /\ OnV("insert_range", insert_range(Ctx(v, heap, u), Iter(v.buf, p), src), Len(src))

InsertIlist ==
  /\ Running /\ scope = "v"
  /\ \E p \in Positions, il \in Items, u \in T :
       /\ p <= v.m_end + 1
       /\ v.m_end + Len(il) <= MaxSize
       /\ OnV("insert_ilist", insert_ilist(Ctx(v, heap, u), Iter(v.buf, p), il), Len(il))

EraseRange ==
  /\ Running /\ scope = "v"
  /\ \E f \in Positions, l \in Positions :
       /\ f <= v.m_end + 1 /\ l <= v.m_end + 1
       /\ OnV("erase_range", erase_range(Ctx(v, heap, DefaultT), Iter(v.buf, f), Iter(v.buf, l)), l - f)

Erase ==
  /\ Running /\ scope = "v"
  /\ \E p \in Positions :
       /\ p <= v.m_end + 1
       /\ OnV("erase", erase(Ctx(v, heap, DefaultT), Iter(v.buf, p)), 1)

InsertThenErase ==
  /\ Running /\ scope = "v" /\ v.m_end < MaxSize
  /\ \E p \in 0..MaxSize, x \in Val :
       /\ p <= v.m_end
       /\ OnV("insert_then_erase", insert_then_erase(Ctx(v, heap, DefaultT), Iter(v.buf, p), x), 1)

Assign ==
  /\ Running /\ scope = "v"
  /\ \E n \in 0..MaxCount, x \in Val :
       OnV("assign", assign(Ctx(v, heap, DefaultT), n, x), n)

AssignIlist ==
  /\ Running /\ scope = "v"
  /\ \E il \in Items :
       OnV("assign_ilist", assign_ilist(Ctx(v, heap, DefaultT), il), Len(il))

AssignRange ==
  /\ Running /\ scope = "v"
  /\ \E src \in Items :
       OnV("assign_range", assign_range(Ctx(v, heap, DefaultT), src), Len(src))

SelfAssign ==
  /\ Running /\ scope = "v"
  /\ OnV("operator=", copy_assign(Ctx(v, heap, DefaultT), v, TRUE), v.m_end)

\* { vector<T> tmp(il); ...
ConstructTmp ==
  /\ Running /\ scope = "v"
  /\ \E il \in Items :
       LET c == vector_ilist(heap, il)
       IN  /\ tmp' = c.vec
           /\ heap' = c.heap
           /\ last' = Call("tmp_vector", c, Len(il))
  /\ scope' = "v+tmp"
  /\ UNCHANGED v

\* { vector<T> tmp(v); ...
CopyConstructTmp ==
  /\ Running /\ scope = "v"
  /\ LET c == vector_copy(heap, v)
     IN  /\ tmp' = c.vec
         /\ heap' = c.heap
         /\ last' = Call("tmp_copy", c, 0)
  /\ scope' = "v+tmp"
  /\ UNCHANGED v

\* swap(v, tmp)
Swap ==
  /\ Running /\ scope = "v+tmp"
  /\ LET r == swap(v, tmp)
     IN  /\ v' = r.first
         /\ tmp' = r.second
  /\ last' = Call("swap", Ctx(v', heap, DefaultT), 0)
  /\ UNCHANGED <<heap, scope>>

\* v = tmp
CopyAssign ==
  /\ Running /\ scope = "v+tmp"
  /\ OnV("operator=", copy_assign(Ctx(v, heap, DefaultT), tmp, FALSE), tmp.m_end)

\* ... } : tmp leaves its scope
DestroyTmp ==
  /\ Running /\ scope = "v+tmp"
  /\ LET c == destroy(Ctx(tmp, heap, DefaultT))
     IN  /\ heap' = c.heap
         /\ last' = Call("tmp_destroy", c, 0)
  /\ tmp' = NoVec
  /\ scope' = "v"
  /\ UNCHANGED v

\* v leaves its scope
Destroy ==
  /\ Running /\ scope = "v"
  /\ LET c == destroy(Ctx(v, heap, DefaultT))
     IN  /\ heap' = c.heap
         /\ last' = Call("destroy", c, 0)
  /\ v' = NoVec
  /\ scope' = "end"
  /\ UNCHANGED tmp

Next ==
  \/ PushBack
  \/ PushFront
  \/ PopBack
  \/ PopFront
  \/ Reserve
  \/ ShrinkToFit
  \/ Clear
  \/ InsertValue
  \/ InsertRange
  \/ InsertIlist
  \/ EraseRange
  \/ Erase
  \/ InsertThenErase
  \/ Assign
  \/ AssignIlist
  \/ AssignRange
  \/ SelfAssign
  \/ ConstructTmp
  \/ CopyConstructTmp
  \/ Swap
  \/ CopyAssign
  \/ DestroyTmp
  \/ Destroy

Spec == Init /\ [][Next]_vars

\* ======================================================================
\* Properties
\* ======================================================================
\* the live elements [0, m_end) of a vector; a live slot that is no slot of the
\* buffer shows as Outside
Live(vec) ==
  [i \in 1..vec.m_end |-> IF i <= Len(vec.m_storage) THEN vec.m_storage[i] ELSE Outside]

Fill(n, x) == [i \in 1..n |-> x]

InsertOps == {"insert", "insert_range", "insert_ilist"}
EraseOps == {"erase", "erase_range"}
AssignOps == {"assign", "assign_ilist", "assign_range"}

\* v is alive and the program has not corrupted memory: a call on v can be made
Callable == Running /\ scope # "end"

\* the calls that insert the elements src at begin()+p: each overload that takes
\* src, with each value a read outside the buffer can yield, and what it returns
InsertCalls(p, src) ==
  {[op |-> "insert", c |-> insert(Ctx(v, heap, DefaultT), Iter(v.buf, p), src[i])] :
      i \in {k \in {1} : Len(src) = 1}}
    \cup {[op |-> "insert_range", c |-> insert_range(Ctx(v, heap, u), Iter(v.buf, p), src)] : u \in T}
    \cup {[op |-> "insert_ilist", c |-> insert_ilist(Ctx(v, heap, u), Iter(v.buf, p), src)] : u \in T}

\* what an assign of the elements src can return, one result for each overload
\* that takes src
AssignCalls(src) ==
  {assign(Ctx(v, heap, DefaultT), Len(src), x) : x \in {y \in Val : src = Fill(Len(src), y)}}
    \cup {assign_ilist(Ctx(v, heap, DefaultT), src), assign_range(Ctx(v, heap, DefaultT), src)}

Assigned == Items \cup {Fill(n, x) : n \in 0..MaxCount, x \in Val}

\* C1: in every reachable state 0 <= size <= capacity, for v and for tmp.
C1_SizeWithinCapacity ==
  /\ 0 <= v.m_end /\ v.m_end <= v.m_capacity
  /\ 0 <= tmp.m_end /\ tmp.m_end <= tmp.m_capacity

\* C2: push_back and push_front add exactly one element; the capacity becomes 10
\* from 0, 2c from a full buffer of c > 0 slots, and stays when size < capacity.
C2_GrowthPolicy ==
  [][last'.op \in {"push_back", "push_front"} =>
       /\ v'.m_end = v.m_end + 1
       /\ v.m_capacity = 0 => v'.m_capacity = 10
       /\ (v.m_capacity > 0 /\ v.m_end = v.m_capacity) => v'.m_capacity = 2 * v.m_capacity
       /\ v.m_end < v.m_capacity => v'.m_capacity = v.m_capacity]_vars

\* a push has put the first element into a fresh buffer of ten slots
C2_Witness ==
  /\ last.op \in {"push_back", "push_front"}
  /\ last.outcome = "ok"
  /\ v.m_end = 1 /\ v.m_capacity = 10
  /\ v.buf # 1

\* C3: every insert overload called with 0 <= p <= size and k elements
\* completes and leaves
\* size + k elements, old[0..p) then the k elements in order then old[p..size),
\* and returns the iterator at offset p of the buffer the vector now owns.
C3_InsertPlacesElements ==
  [][last'.op \in InsertOps =>
       \A p \in 0..v.m_end, src \in Items :
         \A k \in InsertCalls(p, src) :
           OnV(k.op, k.c, Len(src)) =>
             /\ last'.outcome = "ok"
             /\ v'.m_end = v.m_end + Len(src)
             /\ Live(v') = SubSeq(Live(v), 1, p) \o src \o SubSeq(Live(v), p + 1, v.m_end)
             /\ last'.ret = Iter(v'.buf, p)]_vars

\* C4: on every reachable vector, erase(first, last) with
\* 0 <= first <= last <= size completes and leaves old[0..first)
\* then old[last..size), size - (last - first) elements, the same capacity and
\* buffer, and returns the iterator at offset first; erase(pos) does, for every
\* pos, what erase(pos, pos+1) does.
C4_EraseRemovesRange ==
  Callable =>
    /\ \A f \in 0..v.m_end, l \in 0..v.m_end :
         f <= l =>
           LET c == erase_range(Ctx(v, heap, DefaultT), Iter(v.buf, f), Iter(v.buf, l))
           IN  /\ Outcome(c) = "ok" /\ ~c.oobR
               /\ Live(c.vec) = SubSeq(Live(v), 1, f) \o SubSeq(Live(v), l + 1, v.m_end)
               /\ c.vec.m_end = v.m_end - (l - f)
               /\ c.vec.m_capacity = v.m_capacity
               /\ c.vec.buf = v.buf /\ c.heap = heap
               /\ c.ret = Iter(v.buf, f)
    /\ \A p \in Positions :
         LET c == erase(Ctx(v, heap, DefaultT), Iter(v.buf, p))
             r == erase_range(Ctx(v, heap, DefaultT), Iter(v.buf, p), Iter(v.buf, p + 1))
         IN  c = r

\* erase(begin(), begin()+1) has taken the first of two elements
C4_Witness ==
  /\ last.op = "erase_range" /\ last.outcome = "ok"
  /\ last.n = 1 /\ last.ret.off = 0
  /\ v.m_end = 1

\* C5: on every reachable vector, an assign of count elements (count and value,
\* initializer list or range) leaves exactly those elements; with
\* count <= old size the buffer and the capacity stay, with count > old size
\* the capacity becomes count.
C5_AssignReplacesContents ==
  Callable =>
    \A src \in Assigned :
      \A c \in AssignCalls(src) :
        /\ Outcome(c) = "ok"
        /\ c.vec.m_end = Len(src)
        /\ Live(c.vec) = src
        /\ Len(src) <= v.m_end => (c.vec.m_capacity = v.m_capacity /\ c.vec.buf = v.buf)
        /\ Len(src) > v.m_end => c.vec.m_capacity = Len(src)

\* assign(2, x) has reused the ten slots a first push allocated
C5_Witness ==
  /\ last.op = "assign" /\ last.outcome = "ok"
  /\ last.n = 2 /\ v.m_end = 2
  /\ v.m_capacity = 10

\* C6 as claimed: the capacity of v goes down only in shrink_to_fit and in an
\* assign / operator= whose source holds fewer elements than v's size.
C6_CapacityMonotone ==
  [][(scope' # "end" /\ v'.m_capacity < v.m_capacity) =>
       \/ last'.op = "shrink_to_fit"
       \/ (last'.op \in AssignOps \cup {"operator="} /\ last'.n < v.m_end)]_vars

\* C6 amended: the capacity of v goes down only in shrink_to_fit, in swap, and in
\* an assign of count elements with size < count < capacity, which makes the
\* capacity count; reserve and operator= never lower it.
C6_CapacityLowering ==
  [][(scope' # "end" /\ v'.m_capacity < v.m_capacity) =>
       \/ last'.op = "shrink_to_fit"
       \/ last'.op = "swap"
       \/ /\ last'.op \in AssignOps
          /\ v.m_end < last'.n /\ last'.n < v.m_capacity
          /\ v'.m_capacity = last'.n]_vars

\* an assign of one element has left a buffer of one slot
C6_Witness ==
  /\ last.op \in AssignOps /\ last.outcome = "ok"
  /\ last.n = 1 /\ v.m_capacity = 1

\* C7: on every reachable vector, insert outside [begin(), end()], erase(pos)
\* outside [begin(), end()) and erase(first, last) with first < begin(),
\* last > end() or first > last end in out_of_range, with the members, the
\* buffer and the heap as they were.
C7_OutOfRangeLeavesVector ==
  LET Refused(c) == Outcome(c) = "out_of_range" /\ c.vec = v /\ c.heap = heap
  IN  /\ Callable =>
           /\ \A p \in Positions \ (0..v.m_end), src \in Items :
                \A k \in InsertCalls(p, src) : Refused(k.c)
           /\ \A p \in Positions \ (0..(v.m_end - 1)) :
                Refused(erase(Ctx(v, heap, DefaultT), Iter(v.buf, p)))
           /\ \A f \in Positions, l \in Positions :
                (f < 0 \/ l > v.m_end \/ f > l) =>
                  Refused(erase_range(Ctx(v, heap, DefaultT), Iter(v.buf, f), Iter(v.buf, l)))

\* an erase has thrown on a vector that holds elements
C7_Witness ==
  /\ last.op = "erase" /\ last.outcome = "out_of_range"
  /\ v.m_end = 2

\* C8: insert(begin()+p, x) followed by erase of the iterator insert returned
\* completes and restores the live sequence and the size.
C8_InsertEraseRestores ==
  [][last'.op = "insert_then_erase" =>
       /\ last'.outcome = "ok"
       /\ v'.m_end = v.m_end
       /\ Live(v') = Live(v)]_vars

\* C9: the buffers in use are exactly the ones the living vectors own, one each
\* and no two the same, and no call releases a buffer that is not in use; after
\* v's destruction none is in use.
C9_BuffersOwnedOnce ==
  /\ ~last.dfree
  /\ NoBuf \notin heap
  /\ scope = "v" => heap = {v.buf}
  /\ scope = "v+tmp" => (heap = {v.buf, tmp.buf} /\ v.buf # tmp.buf)
  /\ scope = "end" => heap = {}

\* shrink_to_fit has replaced the buffer the constructor allocated
C9_Witness ==
  /\ last.op = "shrink_to_fit" /\ last.outcome = "ok"
  /\ v.buf # 1
  /\ v.m_end = 2 /\ v.m_capacity = 2

\* C10: no call reads or writes a slot outside [0, capacity) of the owned buffer.
C10_NoStrayAccess == ~last.oobR /\ ~last.oobW


====
